---- MODULE Spec2Model ----
(***************************************************************************)
(* Model of ringbuf/src/lib.rs: a fixed-capacity byte ring buffer built on *)
(* std::collections::VecDeque<u8>, with overwrite-on-overflow push, peek   *)
(* (contiguous view of a prefix) and skip (consume a prefix).              *)
(*                                                                         *)
(* The VecDeque is modelled physically: a storage array `buf` of `pcap`    *)
(* slots, the slot `head` of the first element and the element count       *)
(* `len`.  Where the standard library leaves the physical result open      *)
(* (allocated capacity, where make_contiguous/clear/drain leave the head)  *)
(* the model takes every outcome the library contract allows.  A slot      *)
(* that holds no element of the deque is Vacant: the library does not      *)
(* define what it contains, the deque never reads it, and a read through   *)
(* a stale pointer finds no byte it can rely on there.                     *)
(*                                                                         *)
(* usize subtraction is modelled with the overflow check of the build the  *)
(* repository's tests run under: an underflow is a panic.                  *)
(***************************************************************************)
EXTENDS Integers, Sequences, FiniteSets, TLC

\* ---- bounds of the model ----
MaxCapacity == 2    \* capacities 0..MaxCapacity are constructed
MaxExcess == 1      \* VecDeque may allocate up to this many slots more than asked
MaxPushLen == 2     \* pushed slices have 0..MaxPushLen bytes
NumBytes == 2       \* distinct byte values pushed

Byte == 1..NumBytes
Vacant == 0         \* content of a storage slot that holds no element
Slot == Byte \cup {Vacant}

Slices == UNION {[1..k -> Byte] : k \in 0..MaxPushLen}
Counts == 0..(MaxCapacity + 1)

Min(a, b) == IF a <= b THEN a ELSE b

VARIABLES
  capacity,   \* RingBuffer.capacity
  queue,      \* RingBuffer.queue: [buf, head, len, pcap]
  alive,      \* FALSE once del() has dropped the box
  op,         \* the last call made
  bytes,      \* argument of the last push
  n,          \* argument of the last peek / skip
  prelen,     \* queue.len when the last call was made
  outcome,    \* "ok" or "panic" for the last call
  ret,        \* the bytes the slice returned by the last peek reads
  count,      \* value returned by the last read_available / write_available
  held,       \* a pointer returned by an earlier peek that the caller still holds
  moved,      \* TRUE when the last peek called make_contiguous
  pushed,     \* the last `capacity` bytes of all slices pushed so far, in push order
  answered,   \* what read_available / write_available returned since the last push or skip
  track       \* which record this behaviour keeps: "pushed", "answered", or "none" (then `held`)

vars == <<capacity, queue, alive, op, bytes, n, prelen, outcome, ret, count, held, moved, pushed, answered, track>>

\* ---------------------------------------------------------------------
\* VecDeque<u8>
\* ---------------------------------------------------------------------

\* physical slot of the i-th slot after the head (0-based)
Wrap(i, pcap) == IF pcap = 0 THEN 0 ELSE i % pcap

At(q, i) == q.buf[Wrap(q.head + i, q.pcap)]

\* the logical contents, front first
Contents(q) == [i \in 1..q.len |-> At(q, i - 1)]

\* a deque built holding c bytes, as VecDeque::from(vec![b; c]) would be
WithCapacityFilled(c) ==
  {[buf |-> [s \in 0..(p - 1) |-> IF s < c THEN 1 ELSE Vacant],
    head |-> 0, len |-> c, pcap |-> p] : p \in c..(c + MaxExcess)}

\* VecDeque::with_capacity(c): room for at least c elements, nothing stored
WithCapacity(c) ==
  {[buf |-> [s \in 0..(p - 1) |-> Vacant], head |-> 0, len |-> 0, pcap |-> p] :
     p \in c..(c + MaxExcess)}

\* reserve(additional): reallocates only when the elements do not fit
Reserve(q, additional) ==
  IF q.len + additional <= q.pcap THEN q
  ELSE [buf |-> [s \in 0..(q.len + additional - 1) |->
                   IF s < q.len THEN At(q, s) ELSE Vacant],
        head |-> 0, len |-> q.len, pcap |-> q.len + additional]

\* slot that receives the i-th (0-based) byte of an extend
WriteSlotAtHead(q, i) == Wrap(q.head + i, q.pcap)

WriteSlot(q, i) == Wrap(q.head + q.len + i, q.pcap)

\* extend(bytes): push_back of every byte, in order
DequeExtend(q, b) ==
  LET g == Reserve(q, Len(b))
      Hit(s) == {i \in 1..Len(b) : WriteSlot(g, i - 1) = s}
  IN [g EXCEPT !.buf = [s \in DOMAIN g.buf |->
                          IF Hit(s) # {} THEN b[CHOOSE i \in Hit(s) : TRUE]
                          ELSE g.buf[s]],
               !.len = g.len + Len(b)]

\* the storage of q with only the elements first..last (0-based) kept
Keep(q, first, last) ==
  [s \in DOMAIN q.buf |->
     IF \E i \in first..last : Wrap(q.head + i, q.pcap) = s THEN q.buf[s] ELSE Vacant]

\* a clear() that was left out
DequeClearKeeps(q) == {q}

\* clear(): no element left; the head stays or is reset, by library version
DequeClear(q) ==
  {[q EXCEPT !.len = 0, !.head = h, !.buf = Keep(q, 0, -1)] : h \in {q.head, 0}}

\* a drain that takes the elements off the wrong end
DequeDrainBack(q, k) ==
  {[q EXCEPT !.len = q.len - k, !.buf = Keep(q, 0, q.len - k - 1)]}

\* drain(..k) for k <= len: the first k elements are removed; the head is
\* reset when nothing is left, by library version
DequeDrain(q, k) ==
  LET h == Wrap(q.head + k, q.pcap)
  IN {[q EXCEPT !.len = q.len - k, !.head = hh, !.buf = Keep(q, k, q.len - 1)] :
        hh \in (IF q.len = k THEN {h, 0} ELSE {h})}

\* as_slices().0.len(): the elements stored from the head to the end of buf
LeftLen(q) == IF q.head + q.len <= q.pcap THEN q.len ELSE q.pcap - q.head

\* make_contiguous(): same elements in the same order in one unbroken run;
\* where the run starts is the library's choice
MakeContiguous(q) ==
  {[q EXCEPT !.head = h,
             !.buf = [s \in DOMAIN q.buf |->
                        IF h <= s /\ s < h + q.len THEN At(q, s - h) ELSE Vacant]] :
     h \in 0..(q.pcap - q.len)}

\* ---------------------------------------------------------------------
\* RingBuffer
\* ---------------------------------------------------------------------

Ok(q) == [queue |-> q, outcome |-> "ok"]
Panic(q) == [queue |-> q, outcome |-> "panic"]

\* peek, lines 27-29
PeekOobOffByOne(k, len) == k >= len

PeekOob(k, len) == k > len

\* peek, lines 31-34
NeedContiguousNever(q, k) == k > q.len

NeedContiguous(q, k) == k > LeftLen(q)

\* the bytes a pointer to slot ptr reads over k bytes
ReadAt(q, ptr, k) == [i \in 1..k |-> q.buf[ptr + i - 1]]

\* peek: every [queue, outcome, ptr] the call can end with
PeekResults(q, k) ==
  IF PeekOob(k, q.len) THEN {[queue |-> q, outcome |-> "panic", ptr |-> 0]}
  ELSE LET qs == IF NeedContiguous(q, k) THEN MakeContiguous(q) ELSE {q}
       IN {IF k > LeftLen(q2)
             THEN [queue |-> q2, outcome |-> "panic", ptr |-> 0]   \* &left[..n] out of range
             ELSE [queue |-> q2, outcome |-> "ok", ptr |-> q2.head] : q2 \in qs}

\* skip, lines 45-47
SkipOobOffByOne(k, len) == k >= len

SkipOob(k, len) == k > len

\* skip: every [queue, outcome] the call can end with
SkipResults(q, k) ==
  IF SkipOob(k, q.len) THEN {Panic(q)}
  ELSE IF k > q.len THEN {Panic(q)}          \* drain(..n) out of range
  ELSE {Ok(d) : d \in DequeDrain(q, k)}

\* push, line 53
LeewayOffByOne(cap, len) == cap - len - 1

Leeway(cap, len) == cap - len

\* push, lines 55/58/62: which of the three paths is taken
PushBranchByCapacity(m, leeway, cap) ==
  IF m <= cap THEN "extend" ELSE IF m >= cap THEN "clear" ELSE "drain"

PushBranchTwoWay(m, leeway, cap) ==
  IF m <= leeway THEN "extend" ELSE "drain"

PushBranch(m, leeway, cap) ==
  IF m <= leeway THEN "extend" ELSE IF m >= cap THEN "clear" ELSE "drain"

\* push, line 61: &bytes[bytes.len() - capacity..]
RetainedHead(b, cap) == SubSeq(b, 1, cap)

RetainedTail(b, cap) == SubSeq(b, Len(b) - cap + 1, Len(b))

\* push, line 64: bytes.len() - leeway
DrainCountOffByOne(m, leeway) == m - leeway + 1

DrainCount(m, leeway) == m - leeway

\* push: every [queue, outcome] the call can end with
PushResults(q, cap, b) ==
  LET m == Len(b)
      leeway == Leeway(cap, q.len)
      br == PushBranch(m, leeway, cap)
  IN IF leeway < 0 THEN {Panic(q)}                       \* capacity - len underflows
     ELSE IF br = "extend" THEN {Ok(DequeExtend(q, b))}
     ELSE IF br = "clear" THEN
       IF m < cap THEN {Panic(q)}                        \* len - capacity underflows
       ELSE {Ok(DequeExtend(c, RetainedTail(b, cap))) : c \in DequeClear(q)}
     ELSE
       IF DrainCount(m, leeway) < 0 THEN {Panic(q)}      \* len - leeway underflows
       ELSE IF DrainCount(m, leeway) > q.len THEN {Panic(q)}   \* drain(..k) out of range
       ELSE {Ok(DequeExtend(d, b)) : d \in DequeDrain(q, DrainCount(m, leeway))}

\* read_available, line 82
ReadAvailableLeft(q) == LeftLen(q)

ReadAvailableValue(q) == q.len

\* write_available, line 91
WriteAvailableOfDeque(cap, q) == q.pcap - q.len

WriteAvailableValue(cap, q) == cap - q.len

\* the last k elements of s, all of s when it has fewer
LastOf(s, k) == IF Len(s) <= k THEN s ELSE SubSeq(s, Len(s) - k + 1, Len(s))

\* no query made yet: read and write are the sets of values returned, again
\* tells that the last call was a query made before
NoAnswer == [read |-> {}, write |-> {}, again |-> FALSE]

NoView == [some |-> FALSE, ptr |-> 0, n |-> 0]

\* ---------------------------------------------------------------------
\* the calls
\* ---------------------------------------------------------------------

Running == alive /\ outcome = "ok"

\* new(capacity)
New ==
  /\ capacity \in 0..MaxCapacity
  /\ queue \in WithCapacity(capacity)
  /\ alive = TRUE
  /\ op = "new"
  /\ bytes = <<>>
  /\ n = 0
  /\ prelen = 0
  /\ outcome = "ok"
  /\ ret = <<>>
  /\ count = 0
  /\ held = NoView
  /\ moved = FALSE
  /\ pushed = <<>>
  /\ answered = NoAnswer

\* a new buffer, no record kept
Init == New /\ track = "none"

\* a new buffer, the pushed bytes recorded
InitPushed == New /\ track = "pushed"

\* a new buffer, the answers of the queries recorded
InitAnswered == New /\ track = "answered"

\* what push(buffer, bytes, n) does to the queue and what the caller sees
PushCall(b) ==
  /\ Running
  /\ \E r \in PushResults(queue, capacity, b) :
       /\ queue' = r.queue
       /\ outcome' = r.outcome
  /\ op' = "push"
  /\ bytes' = b
  /\ n' = 0
  /\ prelen' = queue.len
  /\ ret' = <<>>
  /\ count' = 0
  /\ held' = NoView          \* the caller must not read an earlier view any more
  /\ moved' = FALSE
  /\ pushed' = IF track = "pushed" THEN LastOf(pushed \o b, capacity) ELSE pushed
  /\ answered' = NoAnswer

\* a push that raises the capacity to the length of an oversized slice
PushRegrow(b) ==
  /\ PushCall(b)
  /\ capacity' = (IF Len(b) > capacity THEN Len(b) ELSE capacity)
  /\ UNCHANGED <<alive, track>>

\* push(buffer, bytes, n)
Push(b) ==
  /\ PushCall(b)
  /\ UNCHANGED <<capacity, alive, track>>

\* peek(buffer, n)
Peek(k) ==
  /\ Running
  /\ \E r \in PeekResults(queue, k) :
       /\ queue' = r.queue
       /\ outcome' = r.outcome
       /\ ret' = IF r.outcome = "ok" THEN ReadAt(r.queue, r.ptr, k) ELSE <<>>
       /\ held' \in IF r.outcome = "ok" /\ track = "none"
                      THEN {held, [some |-> TRUE, ptr |-> r.ptr, n |-> k]}
                      ELSE {held}
  /\ op' = "peek"
  /\ bytes' = <<>>
  /\ n' = k
  /\ prelen' = queue.len
  /\ count' = 0
  /\ moved' = (~PeekOob(k, queue.len) /\ NeedContiguous(queue, k))
  /\ answered' = [answered EXCEPT !.again = FALSE]
  /\ UNCHANGED <<capacity, alive, pushed, track>>

\* skip(buffer, n)
Skip(k) ==
  /\ Running
  /\ \E r \in SkipResults(queue, k) :
       /\ queue' = r.queue
       /\ outcome' = r.outcome
  /\ op' = "skip"
  /\ bytes' = <<>>
  /\ n' = k
  /\ prelen' = queue.len
  /\ ret' = <<>>
  /\ count' = 0
  /\ held' = NoView
  /\ moved' = FALSE
  /\ answered' = NoAnswer
  /\ UNCHANGED <<capacity, alive, pushed, track>>

\* read_available(buffer)
ReadAvailable ==
  /\ Running
  /\ op' = "read_available"
  /\ count' = ReadAvailableValue(queue)
  /\ bytes' = <<>>
  /\ n' = 0
  /\ prelen' = queue.len
  /\ ret' = <<>>
  /\ moved' = FALSE
  /\ answered' = IF track = "answered"
                   THEN [answered EXCEPT !.read = @ \cup {count'}, !.again = (answered.read # {})]
                   ELSE answered
  /\ UNCHANGED <<capacity, queue, alive, outcome, held, pushed, track>>

\* write_available(buffer)
WriteAvailable ==
  /\ Running
  /\ op' = "write_available"
  /\ IF WriteAvailableValue(capacity, queue) >= 0
       THEN count' = WriteAvailableValue(capacity, queue) /\ outcome' = "ok"
       ELSE count' = 0 /\ outcome' = "panic"       \* capacity - len underflows
  /\ bytes' = <<>>
  /\ n' = 0
  /\ prelen' = queue.len
  /\ ret' = <<>>
  /\ moved' = FALSE
  /\ answered' = IF track = "answered" /\ outcome' = "ok"
                   THEN [answered EXCEPT !.write = @ \cup {count'}, !.again = (answered.write # {})]
                   ELSE answered
  /\ UNCHANGED <<capacity, queue, alive, held, pushed, track>>

\* del(buffer)
Del ==
  /\ Running
  /\ alive' = FALSE
  /\ op' = "del"
  /\ bytes' = <<>>
  /\ n' = 0
  /\ prelen' = queue.len
  /\ ret' = <<>>
  /\ count' = 0
  /\ held' = NoView
  /\ moved' = FALSE
  /\ answered' = NoAnswer
  /\ UNCHANGED <<capacity, queue, outcome, pushed, track>>

Next ==
  \/ \E b \in Slices : Push(b)
  \/ \E k \in Counts : Peek(k)
  \/ \E k \in Counts : Skip(k)
  \/ ReadAvailable
  \/ WriteAvailable
  \/ Del

Spec == Init /\ [][Next]_vars

SpecPushed == InitPushed /\ [][Next]_vars

SpecAnswered == InitAnswered /\ [][Next]_vars

\* ---------------------------------------------------------------------
\* properties
\* ---------------------------------------------------------------------

Suffix(s, k) == SubSeq(s, Len(s) - k + 1, Len(s))
Prefix(s, k) == SubSeq(s, 1, k)

\* leeway of the buffer when the last call was made
PreLeeway == capacity - prelen

PushDone == op = "push" /\ outcome = "ok"

\* C1: after every call the number of retained bytes is between 0 and the
\* capacity.
C1_LengthWithinCapacity ==
  /\ 0 <= Len(Contents(queue))
  /\ Len(Contents(queue)) <= capacity

\* a push that had to drop bytes has filled the buffer to its capacity
C1_Witness ==
  /\ PushDone
  /\ capacity > 0
  /\ prelen + Len(bytes) > capacity
  /\ Len(Contents(queue)) = capacity

\* C2: a push of m bytes returns normally and leaves
\* min(capacity, length before + m) bytes.
C2_PushLength ==
  [][ op' = "push" =>
        /\ outcome' = "ok"
        /\ Len(Contents(queue')) = Min(capacity, Len(Contents(queue)) + Len(bytes')) ]_vars

\* a push on the drain path: the sum exceeds the capacity, the minimum is the capacity
C2_Witness ==
  /\ PushDone
  /\ prelen > 0
  /\ PreLeeway < Len(bytes)
  /\ Len(bytes) < capacity
  /\ Len(Contents(queue)) = capacity

\* C3: a push of m >= capacity bytes that exceeds the leeway leaves exactly
\* the last `capacity` bytes of the pushed slice, in order, and nothing of
\* the earlier contents.
C3_OversizedPushKeepsTail ==
  [][ (op' = "push" /\ Len(bytes') >= capacity /\ Len(bytes') > capacity - queue.len) =>
        /\ outcome' = "ok"
        /\ Contents(queue') = Suffix(bytes', capacity) ]_vars

\* an oversized push into a buffer that held bytes; what is kept is the
\* tail of the slice and differs from its head
C3_Witness ==
  /\ PushDone
  /\ capacity >= 1
  /\ Len(bytes) > capacity
  /\ prelen > 0
  /\ Contents(queue) = Suffix(bytes, capacity)
  /\ Contents(queue) # Prefix(bytes, capacity)

\* C4: a push of m bytes with leeway < m < capacity drops exactly m - leeway
\* bytes from the front, appends the whole slice and leaves the buffer full.
C4_DrainPushDropsFront ==
  [][ (op' = "push" /\ capacity - queue.len < Len(bytes') /\ Len(bytes') < capacity) =>
        /\ outcome' = "ok"
        /\ Contents(queue') =
             SubSeq(Contents(queue), Len(bytes') - (capacity - queue.len) + 1, queue.len)
               \o bytes'
        /\ Len(Contents(queue')) = capacity ]_vars

\* a drain-path push that dropped some old bytes and kept others
C4_Witness ==
  /\ PushDone
  /\ PreLeeway < Len(bytes)
  /\ Len(bytes) < capacity
  /\ Len(bytes) - PreLeeway < prelen
  /\ Suffix(Contents(queue), Len(bytes)) = bytes

\* C5: a push of m <= leeway bytes appends the slice and drops nothing.
C5_FittingPushAppends ==
  [][ (op' = "push" /\ Len(bytes') <= capacity - queue.len) =>
        /\ outcome' = "ok"
        /\ Contents(queue') = Contents(queue) \o bytes' ]_vars

\* a non-empty slice appended to non-empty contents that wrap around the storage
C5_Witness ==
  /\ PushDone
  /\ Len(bytes) > 0
  /\ Len(bytes) <= PreLeeway
  /\ prelen > 0
  /\ queue.head + queue.len > queue.pcap
  /\ queue.len = prelen + Len(bytes)

\* C6: a view returned by peek still reads the first n bytes of the
\* contents for as long as no push, skip or del has been made; a later
\* peek, read_available or write_available does not invalidate it.
C6_HeldViewStaysValid ==
  held.some => ReadAt(queue, held.ptr, held.n) = Prefix(Contents(queue), held.n)

\* C7: peek(n) with n <= readable returns the first n bytes in order,
\* whether or not the storage wraps, and leaves contents and length unchanged.
C7_PeekReturnsPrefix ==
  [][ (op' = "peek" /\ n' <= queue.len) =>
        /\ outcome' = "ok"
        /\ ret' = Prefix(Contents(queue), n')
        /\ Contents(queue') = Contents(queue)
        /\ queue'.len = queue.len ]_vars

\* a peek of several bytes over contents that wrapped around the storage
C7_Witness ==
  /\ op = "peek"
  /\ outcome = "ok"
  /\ moved
  /\ n >= 2
  /\ ret = Prefix(Contents(queue), n)
  /\ ret[1] # ret[2]

\* C8: skip(n) with n <= readable removes exactly the first n bytes; the
\* rest keeps its order and the length decreases by n.
C8_SkipRemovesPrefix ==
  [][ (op' = "skip" /\ n' <= queue.len) =>
        /\ outcome' = "ok"
        /\ Contents(queue') = SubSeq(Contents(queue), n' + 1, queue.len)
        /\ queue'.len = queue.len - n' ]_vars

\* a skip of part of the contents, from a head other than slot 0
C8_Witness ==
  /\ op = "skip"
  /\ outcome = "ok"
  /\ n > 0
  /\ prelen > n
  /\ queue.len = prelen - n
  /\ Wrap(queue.head + queue.pcap - n, queue.pcap) # 0

\* C9: peek(n) or skip(n) panics exactly when n > readable, and then no
\* bytes are returned and the queue and the capacity are as before the call.
C9_OobPanicsWithoutChange ==
  [][ op' \in {"peek", "skip"} =>
        IF n' > queue.len
          THEN /\ outcome' = "panic"
               /\ ret' = <<>>
               /\ queue' = queue
               /\ capacity' = capacity
          ELSE outcome' = "ok" ]_vars

\* an out-of-range skip on a buffer that holds bytes
C9_Witness ==
  /\ op = "skip"
  /\ outcome = "panic"
  /\ prelen > 0
  /\ n > prelen
  /\ queue.len = prelen

\* C10: push never panics: capacity - len, the slice start m - capacity and
\* the drain count m - leeway stay within range for every state and every
\* slice length, zero and oversized included.
C10_PushNeverFails ==
  [][ op' = "push" =>
        LET m == Len(bytes')
            leeway == capacity - queue.len
        IN /\ outcome' = "ok"
           /\ leeway >= 0
           /\ (m > leeway /\ m >= capacity) => (0 <= m - capacity /\ m - capacity <= m)
           /\ (m > leeway /\ m < capacity) => (0 <= m - leeway /\ m - leeway <= queue.len) ]_vars

\* a push of more than the capacity into a full buffer
C10_Witness ==
  /\ PushDone
  /\ capacity > 0
  /\ prelen = capacity
  /\ Len(bytes) > capacity

\* a push of no bytes into a full buffer
C10_WitnessEmpty ==
  /\ PushDone
  /\ capacity > 0
  /\ prelen = capacity
  /\ Len(bytes) = 0

\* C11: the values read_available and write_available return add up to the
\* capacity in every reachable state, and write_available never underflows.
C11_ReadablePlusWritable ==
  [][ /\ op' = "read_available" =>
           (outcome' = "ok" /\ count' = Len(Contents(queue)) /\ count' <= capacity)
      /\ op' = "write_available" =>
           (outcome' = "ok" /\ count' >= 0 /\ Len(Contents(queue)) + count' = capacity) ]_vars

\* write_available on a partly filled buffer whose deque allocated more than asked
C11_Witness ==
  /\ op = "write_available"
  /\ outcome = "ok"
  /\ queue.len > 0
  /\ count > 0
  /\ queue.pcap > capacity
  /\ queue.len + count = capacity

\* C12: no call changes the capacity given at construction.
C12_CapacityFixed ==
  [][capacity' = capacity]_vars

\* an oversized push into a buffer that had room left: the capacity is
\* what it was and the buffer is filled to it
C12_Witness ==
  /\ PushDone
  /\ capacity > 0
  /\ Len(bytes) > capacity
  /\ prelen < capacity
  /\ queue.len = capacity

\* C13: a buffer of capacity 0 takes every push and stays empty:
\* both counts are 0 after any sequence of calls.
C13_CapacityZeroStaysEmpty ==
  capacity = 0 =>
    /\ Len(Contents(queue)) = 0
    /\ op = "push" => outcome = "ok"
    /\ op \in {"read_available", "write_available"} => (outcome = "ok" /\ count = 0)

\* a non-empty push into a buffer of capacity 0
C13_Witness ==
  /\ capacity = 0
  /\ PushDone
  /\ Len(bytes) > 0
  /\ Len(Contents(queue)) = 0

\* C14: a push of zero bytes leaves the contents, and with them both
\* counts, unchanged, also on a full buffer and on a buffer of capacity 0.
C14_EmptyPushIsNoOp ==
  [][ (op' = "push" /\ bytes' = <<>>) =>
        /\ outcome' = "ok"
        /\ Contents(queue') = Contents(queue)
        /\ ReadAvailableValue(queue') = ReadAvailableValue(queue)
        /\ WriteAvailableValue(capacity', queue') = WriteAvailableValue(capacity, queue) ]_vars

\* an empty push into a full buffer whose contents wrap around the storage
C14_Witness ==
  /\ PushDone
  /\ Len(bytes) = 0
  /\ prelen = capacity
  /\ queue.len = capacity
  /\ queue.head + queue.len > queue.pcap

\* C15: skip(read_available()) is always within range and leaves the buffer
\* empty: readable 0, writable = capacity.
C15_SkipAllEmpties ==
  [][ (op' = "skip" /\ n' = ReadAvailableValue(queue)) =>
        /\ outcome' = "ok"
        /\ Len(Contents(queue')) = 0
        /\ ReadAvailableValue(queue') = 0
        /\ WriteAvailableValue(capacity', queue') = capacity' ]_vars

\* a skip of everything a full buffer held
C15_Witness ==
  /\ op = "skip"
  /\ outcome = "ok"
  /\ prelen = capacity
  /\ capacity > 0
  /\ n = prelen
  /\ queue.len = 0

\* C16: a new buffer is empty: readable 0 and writable = capacity, for
\* every capacity.
C16_NewIsEmpty ==
  op = "new" =>
    /\ Contents(queue) = <<>>
    /\ ReadAvailableValue(queue) = 0
    /\ WriteAvailableValue(capacity, queue) = capacity

\* a new buffer of non-zero capacity whose deque allocated more than asked
C16_Witness ==
  /\ op = "new"
  /\ capacity > 0
  /\ queue.pcap > capacity
  /\ queue.len = 0

\* C18: the three paths of push agree with one reference operation: the
\* contents after push(bytes) are the last min(capacity, len + m) elements of
\* the old contents followed by bytes.
C18_PushIsSuffixOfConcat ==
  [][ op' = "push" =>
        /\ outcome' = "ok"
        /\ Contents(queue') =
             Suffix(Contents(queue) \o bytes', Min(capacity, queue.len + Len(bytes'))) ]_vars

\* a push of exactly `capacity` bytes into a buffer that held bytes: the
\* boundary between the drain path and the clear path
C18_Witness ==
  /\ PushDone
  /\ capacity >= 2
  /\ Len(bytes) = capacity
  /\ prelen > 0
  /\ Contents(queue) = bytes

\* C19: write_available is the overwrite threshold: on a non-empty buffer a
\* push of m bytes drops an old byte exactly when m > write_available, and
\* with m <= write_available the old contents are all still there, in front.
C19_WritableIsThreshold ==
  [][ (op' = "push" /\ queue.len > 0) =>
        LET m == Len(bytes')
            w == WriteAvailableValue(capacity, queue)
            old == Contents(queue)
            new == Contents(queue')
            kept == IF queue'.len > m THEN queue'.len - m ELSE 0
        IN /\ outcome' = "ok"
           /\ kept <= queue.len
           /\ new = Suffix(old, kept) \o Suffix(bytes', queue'.len - kept)
           /\ (kept < queue.len) <=> (m > w)
           /\ (m <= w) => (Prefix(new, queue.len) = old) ]_vars

\* a push of one byte more than a non-zero write_available
C19_Witness ==
  /\ PushDone
  /\ prelen > 0
  /\ PreLeeway > 0
  /\ Len(bytes) = PreLeeway + 1
  /\ queue.len = capacity

\* C17: after any sequence of calls the contents are a suffix of the
\* concatenation of all slices pushed so far: nothing is reordered,
\* duplicated or taken from the middle.  (The contents never exceed the
\* capacity, so the last `capacity` bytes of that concatenation decide it.)
C17_ContentsSuffixOfPushed ==
  /\ Len(Contents(queue)) <= Len(pushed)
  /\ Contents(queue) = Suffix(pushed, Len(Contents(queue)))

\* a push that dropped old bytes and left contents spanning two pushes
C17_Witness ==
  /\ PushDone
  /\ Len(bytes) > 0
  /\ Len(bytes) < queue.len
  /\ prelen + Len(bytes) > capacity
  /\ Contents(queue) = Suffix(pushed, queue.len)
  /\ Contents(queue)[1] # Contents(queue)[queue.len]

\* contents left by a skip: shorter than what was pushed, and still its tail
C17_WitnessSkip ==
  /\ op = "skip"
  /\ outcome = "ok"
  /\ n > 0
  /\ queue.len > 0
  /\ Len(pushed) > queue.len
  /\ Contents(queue) = Suffix(pushed, queue.len)

\* C20: read_available and write_available are pure queries: a call leaves
\* the queue and the capacity as they were, and returns what every earlier
\* call of the same query returned since the last push or skip, peeks in
\* between included.
C20_QueriesArePure ==
  [][ /\ op' \in {"read_available", "write_available"} =>
           (outcome' = "ok" /\ queue' = queue /\ capacity' = capacity)
      /\ op' = "read_available" => answered.read \subseteq {count'}
      /\ op' = "write_available" => answered.write \subseteq {count'} ]_vars

\* read_available repeated on a buffer whose contents wrap around the
\* storage, with write_available answered in between
C20_Witness ==
  /\ op = "read_available"
  /\ answered.again
  /\ answered.read = {count}
  /\ answered.write # {}
  /\ count >= 2
  /\ queue.head + queue.len > queue.pcap

====
